---- MODULE Spec2Model ----
(***************************************************************************)
(* text_to_sql.py: ClickHouseSQLGenerator and main().                      *)
(*                                                                         *)
(* A Python str is modelled as the sequence of its code points.  An ASCII  *)
(* code point is the one-character string; any other code point is the     *)
(* string "U+XXXX".  Python's None is the one-element sequence None below,  *)
(* which is no text: "<None>" is not a code point.                         *)
(***************************************************************************)
EXTENDS Integers, Sequences, FiniteSets, TLC

None == <<"<None>">>

\* Python truthiness of an optional str: neither None nor ''.
Truthy(v) == v # None /\ v # <<>>

---------------------------------------------------------------------------
(* String literals of the source *)

T_https_prefix == <<"h", "t", "t", "p", "s", ":", "/", "/">>

T_http_prefix == <<"h", "t", "t", "p", ":", "/", "/">>

T_http == <<"h", "t", "t", "p">>

T_https == <<"h", "t", "t", "p", "s">>

T_colon_slashes == <<":", "/", "/">>

T_colon == <<":">>

T_slash == <<"/">>

T_db_param == <<"?", "d", "a", "t", "a", "b", "a", "s", "e", "=">>

T_clickhouse_client ==
    <<"c", "l", "i", "c", "k", "h", "o", "u", "s", "e", "-", "c", "l", "i", "e", "n", "t">>

T_opt_host == <<"-", "-", "h", "o", "s", "t">>

T_opt_port == <<"-", "-", "p", "o", "r", "t">>

T_opt_user == <<"-", "-", "u", "s", "e", "r">>

T_opt_password == <<"-", "-", "p", "a", "s", "s", "w", "o", "r", "d">>

T_opt_database == <<"-", "-", "d", "a", "t", "a", "b", "a", "s", "e">>

T_opt_secure == <<"-", "-", "s", "e", "c", "u", "r", "e">>

T_opt_config_file == <<"-", "-", "c", "o", "n", "f", "i", "g", "-", "f", "i", "l", "e">>

T_opt_query == <<"-", "-", "q", "u", "e", "r", "y">>

T_opt_format == <<"-", "-", "f", "o", "r", "m", "a", "t">>

T_TabSeparated == <<"T", "a", "b", "S", "e", "p", "a", "r", "a", "t", "e", "d">>

T_opt_multiline == <<"-", "-", "m", "u", "l", "t", "i", "l", "i", "n", "e">>

T_select_1 == <<"S", "E", "L", "E", "C", "T", " ", "1">>

T_describe_table ==
    <<"D", "E", "S", "C", "R", "I", "B", "E", " ", "T", "A", "B", "L", "E", " ">>

T_dot == <<".">>

T_ai_prefix == <<"?", "?", " ">>

T_limit_clause == <<" ", "L", "I", "M", "I", "T", " ">>

T_LIMIT == <<"L", "I", "M", "I", "T">>

T_SELECT == <<"S", "E", "L", "E", "C", "T">>

T_Starting_AI == <<"S", "t", "a", "r", "t", "i", "n", "g", " ", "A", "I">>

T_dashes2 == <<"U+2500", "U+2500">>

T_glass == <<"U+1F50D">>

T_sparkles == <<"U+2728">>

T_arrow == <<"U+279C">>

T_generated_successfully ==
    <<"g", "e", "n", "e", "r", "a", "t", "e", "d", " ", "s", "u", "c", "c", "e", "s", "s",
    "f", "u", "l", "l", "y">>

T_list_databases == <<"l", "i", "s", "t", "_", "d", "a", "t", "a", "b", "a", "s", "e", "s">>

T_list_tables == <<"l", "i", "s", "t", "_", "t", "a", "b", "l", "e", "s">>

T_get_schema == <<"g", "e", "t", "_", "s", "c", "h", "e", "m", "a">>

T_no_results ==
    <<"U+041D", "U+0435", "U+0442", " ", "U+0440", "U+0435", "U+0437", "U+0443", "U+043B",
    "U+044C", "U+0442", "U+0430", "U+0442", "U+043E", "U+0432">>

T_total_rows ==
    <<"U+0412", "U+0441", "U+0435", "U+0433", "U+043E", " ", "U+0441", "U+0442", "U+0440",
    "U+043E", "U+043A", ":", " ">>

T_cell_sep == <<" ", "|", " ">>

T_rule_sep == <<"-", "+", "-">>

T_default_port == <<"8", "4", "4", "3">>

T_default_native_port == <<"9", "4", "4", "0">>

T_default_table == <<"v", "i", "s", "i", "t", "s", "_", "c", "o", "m", "p", "l", "e", "t", "e">>

T_tmp_yaml == <<"/", "t", "m", "p", "/", "t", "m", "p", "0", ".", "y", "a", "m", "l">>

---------------------------------------------------------------------------
(* Character classes and str methods *)

LowerLetters ==
    <<"a", "b", "c", "d", "e", "f", "g", "h", "i", "j", "k", "l", "m", "n", "o", "p", "q",
    "r", "s", "t", "u", "v", "w", "x", "y", "z">>

UpperLetters ==
    <<"A", "B", "C", "D", "E", "F", "G", "H", "I", "J", "K", "L", "M", "N", "O", "P", "Q",
    "R", "S", "T", "U", "V", "W", "X", "Y", "Z">>

DigitChars == <<"0", "1", "2", "3", "4", "5", "6", "7", "8", "9">>

CyrillicLetters ==
    {"U+0412", "U+041D", "U+0430", "U+0432", "U+0433", "U+0435", "U+0437", "U+043A",
    "U+043B", "U+043E", "U+0440", "U+0441", "U+0442", "U+0443", "U+044C"}

Range(s) == { s[i] : i \in 1..Len(s) }

\* str.isspace() / regex \s on the code points that occur here
IsSpace(c) == c \in {" ", "\t", "\n", "\r"}

\* regex \w: letters, digits and the underscore
IsWord(c) ==
    c \in Range(LowerLetters) \cup Range(UpperLetters) \cup Range(DigitChars)
          \cup {"_"} \cup CyrillicLetters

UpperOf ==
    [c \in Range(LowerLetters) |->
        UpperLetters[CHOOSE i \in 1..Len(LowerLetters) : LowerLetters[i] = c]]

LowerOf ==
    [c \in Range(UpperLetters) |->
        LowerLetters[CHOOSE i \in 1..Len(UpperLetters) : UpperLetters[i] = c]]

\* str.upper() and str.lower()
upper(s) == [i \in 1..Len(s) |-> IF s[i] \in DOMAIN UpperOf THEN UpperOf[s[i]] ELSE s[i]]

lower(s) == [i \in 1..Len(s) |-> IF s[i] \in DOMAIN LowerOf THEN LowerOf[s[i]] ELSE s[i]]

\* str.startswith(p)
startswith(s, p) == Len(p) <= Len(s) /\ SubSeq(s, 1, Len(p)) = p

\* p in s
contains(s, p) == \E i \in 1..(Len(s) - Len(p) + 1) : SubSeq(s, i, i + Len(p) - 1) = p

\* index of the first occurrence of p in s (0 when there is none): str.find + 1
find(s, p) ==
    IF contains(s, p)
    THEN CHOOSE i \in 1..(Len(s) - Len(p) + 1) :
            /\ SubSeq(s, i, i + Len(p) - 1) = p
            /\ \A j \in 1..(i - 1) : SubSeq(s, j, j + Len(p) - 1) # p
    ELSE 0

\* str.lstrip(), str.rstrip(), str.strip()
lstrip(s) ==
    IF \A i \in 1..Len(s) : IsSpace(s[i]) THEN <<>>
    ELSE SubSeq(s, CHOOSE i \in 1..Len(s) :
                      ~IsSpace(s[i]) /\ \A j \in 1..(i - 1) : IsSpace(s[j]), Len(s))

rstrip(s) ==
    IF \A i \in 1..Len(s) : IsSpace(s[i]) THEN <<>>
    ELSE SubSeq(s, 1, CHOOSE i \in 1..Len(s) :
                      ~IsSpace(s[i]) /\ \A j \in (i + 1)..Len(s) : IsSpace(s[j]))

strip(s) == rstrip(lstrip(s))

\* str.split(sep): the parts between the leftmost non-overlapping occurrences
RECURSIVE split(_, _)
split(s, sep) ==
    LET i == find(s, sep)
    IN  IF i = 0 THEN <<s>>
        ELSE <<SubSeq(s, 1, i - 1)>> \o split(SubSeq(s, i + Len(sep), Len(s)), sep)

\* sep.join(parts)
RECURSIVE join(_, _)
join(parts, sep) ==
    IF Len(parts) = 0 THEN <<>>
    ELSE IF Len(parts) = 1 THEN parts[1]
    ELSE parts[1] \o sep \o join(Tail(parts), sep)

\* str.replace(old, ''): every leftmost non-overlapping occurrence removed
remove_all(s, old) == join(split(s, old), <<>>)

\* str.ljust(width)
ljust(s, width) == s \o [i \in 1..(width - Len(s)) |-> " "]

\* int(s) accepts here the decimal digit strings; anything else is a ValueError
IsDecimal(s) == Len(s) > 0 /\ \A i \in 1..Len(s) : s[i] \in Range(DigitChars)

DigitValue(c) == (CHOOSE i \in 1..Len(DigitChars) : DigitChars[i] = c) - 1

RECURSIVE int(_)
int(s) ==
    IF Len(s) = 0 THEN 0
    ELSE 10 * int(SubSeq(s, 1, Len(s) - 1)) + DigitValue(s[Len(s)])

\* str(n) for n >= 0
RECURSIVE str(_)
str(n) ==
    IF n < 10 THEN <<DigitChars[n + 1]>>
    ELSE str(n \div 10) \o <<DigitChars[(n % 10) + 1]>>

---------------------------------------------------------------------------
(* ClickHouseSQLGenerator._extract_sql_from_output *)

StartKeywords ==
    { <<"S", "E", "L", "E", "C", "T">>,
      <<"I", "N", "S", "E", "R", "T">>,
      <<"U", "P", "D", "A", "T", "E">>,
      <<"D", "E", "L", "E", "T", "E">>,
      <<"W", "I", "T", "H">>,
      <<"C", "R", "E", "A", "T", "E">>,
      <<"A", "L", "T", "E", "R">>,
      <<"D", "R", "O", "P">>,
      <<"S", "H", "O", "W">>,
      <<"D", "E", "S", "C", "R", "I", "B", "E">>,
      <<"E", "X", "P", "L", "A", "I", "N">> }

FallbackKeywords ==
    { <<"S", "E", "L", "E", "C", "T">>,
      <<"F", "R", "O", "M">>,
      <<"W", "H", "E", "R", "E">>,
      <<"G", "R", "O", "U", "P", " ", "B", "Y">>,
      <<"O", "R", "D", "E", "R", " ", "B", "Y">>,
      <<"L", "I", "M", "I", "T">>,
      <<"D", "E", "S", "C", "R", "I", "B", "E">>,
      <<"S", "H", "O", "W">> }

SeparatorLen == 50

\* '─' * 50, the separator the fallback splits on
T_separator == [i \in 1..SeparatorLen |-> "U+2500"]

T_newline == <<"\n">>

T_tab == <<"\t">>

\* The lines skipped as AI commentary or progress indicators
IsCommentary(line) ==
    \/ startswith(line, T_Starting_AI)
    \/ startswith(line, T_dashes2)
    \/ startswith(line, T_glass)
    \/ startswith(line, T_sparkles)
    \/ startswith(line, T_arrow)
    \/ contains(lower(line), T_generated_successfully)
    \/ contains(lower(line), T_list_databases)
    \/ contains(lower(line), T_list_tables)
    \/ contains(lower(line), T_get_schema)

\* re.match(r'^\s*(SELECT|INSERT|...|EXPLAIN)', line, re.IGNORECASE)
MatchesSqlStart(line) == \E k \in StartKeywords : startswith(upper(lstrip(line)), k)

\* Faulty variant of scan_lines: commentary is skipped after the SQL start too
RECURSIVE scan_lines_keep_skipping(_, _, _, _)
scan_lines_keep_skipping(lines, sql_lines, in_sql, skip_commentary) ==
    IF lines = <<>> THEN sql_lines
    ELSE LET line == Head(lines)
             rest == Tail(lines)
         IN  IF strip(line) = <<>> /\ sql_lines = <<>>
             THEN scan_lines_keep_skipping(rest, sql_lines, in_sql, skip_commentary)
             ELSE IF skip_commentary /\ IsCommentary(line)
             THEN scan_lines_keep_skipping(rest, sql_lines, in_sql, skip_commentary)
             ELSE LET now_in_sql == in_sql \/ MatchesSqlStart(line)
                  IN  scan_lines_keep_skipping(
                          rest,
                          IF now_in_sql THEN Append(sql_lines, line) ELSE sql_lines,
                          now_in_sql,
                          skip_commentary)

\* Faulty variant of scan_lines: a line is collected only when the SQL start was
\* seen on an earlier line
RECURSIVE scan_lines_late_start(_, _, _, _)
scan_lines_late_start(lines, sql_lines, in_sql, skip_commentary) ==
    IF lines = <<>> THEN sql_lines
    ELSE LET line == Head(lines)
             rest == Tail(lines)
         IN  IF strip(line) = <<>> /\ sql_lines = <<>>
             THEN scan_lines_late_start(rest, sql_lines, in_sql, skip_commentary)
             ELSE IF skip_commentary /\ IsCommentary(line)
             THEN scan_lines_late_start(rest, sql_lines, in_sql, skip_commentary)
             ELSE LET start == MatchesSqlStart(line)
                  IN  scan_lines_late_start(
                          rest,
                          IF in_sql THEN Append(sql_lines, line) ELSE sql_lines,
                          in_sql \/ start,
                          skip_commentary /\ ~start)

\* Faulty variant of scan_lines: the keyword test comes first, so a line that
\* begins with a start keyword is never skipped as commentary
RECURSIVE scan_lines_keyword_first(_, _, _, _)
scan_lines_keyword_first(lines, sql_lines, in_sql, skip_commentary) ==
    IF lines = <<>> THEN sql_lines
    ELSE LET line == Head(lines)
             rest == Tail(lines)
             start == MatchesSqlStart(line)
         IN  IF strip(line) = <<>> /\ sql_lines = <<>>
             THEN scan_lines_keyword_first(rest, sql_lines, in_sql, skip_commentary)
             ELSE IF skip_commentary /\ ~start /\ IsCommentary(line)
             THEN scan_lines_keyword_first(rest, sql_lines, in_sql, skip_commentary)
             ELSE scan_lines_keyword_first(
                      rest,
                      IF in_sql \/ start THEN Append(sql_lines, line) ELSE sql_lines,
                      in_sql \/ start,
                      skip_commentary /\ ~start)

\* The for loop over the lines; its value is sql_lines when the loop ends.
RECURSIVE scan_lines(_, _, _, _)
scan_lines(lines, sql_lines, in_sql, skip_commentary) ==
    IF lines = <<>> THEN sql_lines
    ELSE LET line == Head(lines)
             rest == Tail(lines)
         IN  IF strip(line) = <<>> /\ sql_lines = <<>>
             THEN scan_lines(rest, sql_lines, in_sql, skip_commentary)
             ELSE IF skip_commentary /\ IsCommentary(line)
             THEN scan_lines(rest, sql_lines, in_sql, skip_commentary)
             ELSE LET start == MatchesSqlStart(line)
                      now_in_sql == in_sql \/ start
                  IN  scan_lines(rest,
                                 IF now_in_sql THEN Append(sql_lines, line) ELSE sql_lines,
                                 now_in_sql,
                                 skip_commentary /\ ~start)

\* while sql_lines and not sql_lines[-1].strip(): sql_lines.pop()
RECURSIVE pop_trailing_blank(_)
pop_trailing_blank(sql_lines) ==
    IF sql_lines # <<>> /\ strip(sql_lines[Len(sql_lines)]) = <<>>
    THEN pop_trailing_blank(SubSeq(sql_lines, 1, Len(sql_lines) - 1))
    ELSE sql_lines

\* re.search(r'\b(SELECT|FROM|...|SHOW)\b', output_clean, re.IGNORECASE)
SearchesSqlKeyword(text) ==
    LET u == upper(text)
    IN  \E k \in FallbackKeywords :
          \E i \in 1..(Len(u) - Len(k) + 1) :
             /\ SubSeq(u, i, i + Len(k) - 1) = k
             /\ (i = 1 \/ ~IsWord(text[i - 1]))
             /\ (i + Len(k) - 1 = Len(u) \/ ~IsWord(text[i + Len(k)]))

\* Faulty variant of fallback_extract: the separator is not looked for
fallback_extract_whole(output_clean) ==
    IF SearchesSqlKeyword(output_clean) THEN output_clean ELSE None

\* The fallback on the trimmed output, when the loop collected nothing
fallback_extract(output_clean) ==
    IF SearchesSqlKeyword(output_clean)
    THEN LET parts == split(output_clean, T_separator)
             potential_sql == strip(parts[Len(parts)])
         IN  IF contains(output_clean, T_separator) /\ Len(parts) > 1 /\ potential_sql # <<>>
             THEN potential_sql
             ELSE output_clean
    ELSE None

extract_sql_from_output(output) ==
    IF ~Truthy(output) \/ strip(output) = <<>> THEN None
    ELSE LET sql_lines == pop_trailing_blank(
                              scan_lines(split(output, T_newline), <<>>, FALSE, TRUE))
         IN  IF sql_lines # <<>>
             THEN strip(join(sql_lines, T_newline))
             ELSE fallback_extract(strip(output))

---------------------------------------------------------------------------
(* ClickHouseSQLGenerator.execute_query: the row limit *)

\* Faulty variant of add_limit: LIMIT looked for in the statement as written
add_limit_case_sensitive(query, row_limit) ==
    IF ~contains(query, T_LIMIT) /\ startswith(upper(strip(query)), T_SELECT)
    THEN query \o T_limit_clause \o str(row_limit)
    ELSE query

\* if 'LIMIT' not in sql_query.upper() and sql_query.strip().upper().startswith('SELECT')
add_limit(query, row_limit) ==
    IF ~contains(upper(query), T_LIMIT) /\ startswith(upper(strip(query)), T_SELECT)
    THEN query \o T_limit_clause \o str(row_limit)
    ELSE query

---------------------------------------------------------------------------
(* ClickHouseSQLGenerator.format_results *)

SetMax(S) == CHOOSE m \in S : \A n \in S : n <= m

\* The summary line f"Всего строк: {n}"
total_line(n) == T_total_rows \o str(n)

\* Faulty variant of reported_total: the first row always taken as the header
reported_total_minus_header(n_rows) == n_rows - 1

\* The total of the summary line: len(rows) - 1 when the first of several rows is
\* taken as the header, len(rows) for a single row
reported_total(n_rows) == IF n_rows > 1 THEN n_rows - 1 ELSE n_rows

\* The try block never raises on a str, so the except branch is not modelled;
\* output.strip().split('\n') has at least one element, so "if not lines" and
\* "if not rows" are never taken.
format_results(output) ==
    IF ~Truthy(output) THEN T_no_results
    ELSE LET lines == split(strip(output), T_newline)
             rows == [r \in 1..Len(lines) |-> split(lines[r], T_tab)]
             num_cols == Len(rows[1])
             col_widths ==
                 [c \in 1..num_cols |->
                     SetMax({0} \cup { Len(rows[r][c]) :
                                         r \in { q \in 1..Len(rows) : c <= Len(rows[q]) } })]
             formatted_rows ==
                 [r \in 1..Len(rows) |->
                     join([c \in 1..(IF Len(rows[r]) < num_cols THEN Len(rows[r]) ELSE num_cols)
                              |-> ljust(rows[r][c], col_widths[c])],
                          T_cell_sep)]
             separator ==
                 join([c \in 1..num_cols |-> [i \in 1..col_widths[c] |-> "-"]], T_rule_sep)
             result ==
                 IF Len(formatted_rows) > 1
                 THEN <<<<>>, formatted_rows[1], separator>> \o Tail(formatted_rows)
                          \o <<<<>>, total_line(reported_total(Len(rows)))>>
                 ELSE <<<<>>>> \o formatted_rows
                          \o <<<<>>, total_line(reported_total(Len(rows)))>>
         IN  join(result, T_newline)

---------------------------------------------------------------------------
(* The environment the process is started in, and the answers of the       *)
(* external collaborators (the ClickHouse server, the clickhouse-client    *)
(* AI feature, the user at the console), each drawn from a bounded set.     *)

T_my_host == <<"m", "y", "-", "h", "o", "s", "t", ".", "n", "e", "t">>

T_test_user == <<"u", "s", "e", "r">>

T_test_pass == <<"p", "a", "s", "s">>

T_testdb == <<"t", "e", "s", "t", "d", "b">>

T_None_text == <<"N", "o", "n", "e">>

T_or_key == <<"o", "r", "-", "k", "e", "y">>

T_an_key == <<"a", "n", "-", "k", "e", "y">>

T_oa_key == <<"o", "a", "-", "k", "e", "y">>

T_HTTPS_upper == <<"H", "T", "T", "P", "S", ":", "/", "/">>

T_a_b == <<"a", ".", "b">>

P_8443 == <<"8", "4", "4", "3">>

P_443 == <<"4", "4", "3">>

P_8123 == <<"8", "1", "2", "3">>

P_9000 == <<"9", "0", "0", "0">>

P_9440 == <<"9", "4", "4", "0">>

P_9441 == <<"9", "4", "4", "1">>

P_0 == <<"0">>

P_bad == <<"x">>

T_question == <<"q">>

T_json == <<"J", "S", "O", "N">>

L_select_1 == <<"S", "E", "L", "E", "C", "T", " ", "1">>

L_select_a == <<" ", " ", "s", "e", "l", "e", "c", "t", " ", "a", " ">>

L_glass == <<"U+1F50D", " ", "s">>

L_select_get_schema ==
    <<"S", "E", "L", "E", "C", "T", " ", "g", "e", "t", "_", "s", "c", "h", "e", "m", "a">>

L_foo == <<"f", "o", "o">>

L_from == <<"x", " ", "F", "R", "O", "M", " ", "y">>

L_inserted == <<"I", "N", "S", "E", "R", "T", "E", "D">>

S_select == <<"S", "E", "L", "E", "C", "T", " ", "*", " ", "F", "R", "O", "M", " ", "t">>

S_select_limit ==
    <<"S", "E", "L", "E", "C", "T", " ", "*", " ", "F", "R", "O", "M", " ", "t", " ", "L",
    "I", "M", "I", "T", " ", "3">>

S_with ==
    <<"W", "I", "T", "H", " ", "x", " ", "A", "S", " ", "(", "S", "E", "L", "E", "C", "T",
    " ", "1", ")", " ", "S", "E", "L", "E", "C", "T", " ", "*", " ", "F", "R", "O", "M", " ",
    "x">>

S_unlimited ==
    <<"s", "e", "l", "e", "c", "t", " ", "'", "u", "n", "l", "i", "m", "i", "t", "e", "d",
    "'">>

S_show == <<"S", "H", "O", "W", " ", "T", "A", "B", "L", "E", "S">>

R_a == <<"a">>

R_a_bb == <<"a", "\t", "b", "b">>

R_ccc_d == <<"c", "c", "c", "\t", "d", "\t", "e">>

R_sp == <<" ">>

T_example_output ==
    <<"U+00F0", "U+009F", "U+0094", "U+008D", " ", "s", "e", "a", "r", "c", "h", "i", "n",
    "g", ".", ".", ".", "\n", "S", "E", "L", "E", "C", "T", " ", "*", " ", "F", "R", "O",
    "M", " ", "v", "i", "s", "i", "t", "s", " ", "L", "I", "M", "I", "T", " ", "5">>

T_example_sql ==
    <<"S", "E", "L", "E", "C", "T", " ", "*", " ", "F", "R", "O", "M", " ", "v", "i", "s",
    "i", "t", "s", " ", "L", "I", "M", "I", "T", " ", "5">>

\* os.getenv(name, default)
getenv(value, default) == IF value = None THEN default ELSE value

\* The environment of the repository's tests (test_text_to_sql.py)
DefaultEnv ==
    [ CLICKHOUSE_HOST        |-> T_my_host,
      CLICKHOUSE_PORT        |-> P_8443,
      CLICKHOUSE_NATIVE_PORT |-> None,
      CLICKHOUSE_USER        |-> T_test_user,
      CLICKHOUSE_PASSWORD    |-> T_test_pass,
      CLICKHOUSE_DATABASE    |-> T_testdb,
      OPENROUTER_API_KEY     |-> T_or_key,
      ANTHROPIC_API_KEY      |-> None,
      OPENAI_API_KEY         |-> None ]

\* Bounds of the input sets
MaxHostParts == 2

MaxLines == 3

MaxTurnLines == 2

MaxRows == 3

\* All sequences over S of length at most n
SeqsUpTo(S, n) == UNION { [1..k -> S] : k \in 0..n }

PortValues == { None, P_8443, P_443, P_8123, P_9000, P_9440, P_0, P_bad }

NativePortValues == { None, P_9441, P_8443 }

HostParts == { T_https_prefix, T_http_prefix, T_HTTPS_upper, T_a_b }

HostValues ==
    { None, T_https_prefix \o T_my_host }
        \cup { join(parts, <<>>) : parts \in SeqsUpTo(HostParts, MaxHostParts) }

Envs ==
    { [DefaultEnv EXCEPT !.CLICKHOUSE_PORT = p, !.CLICKHOUSE_NATIVE_PORT = n] :
          p \in PortValues, n \in NativePortValues }
    \cup { [DefaultEnv EXCEPT !.CLICKHOUSE_HOST = h] : h \in HostValues }
    \cup { [DefaultEnv EXCEPT !.OPENROUTER_API_KEY = k1, !.ANTHROPIC_API_KEY = k2,
                              !.OPENAI_API_KEY = k3] :
              k1 \in { None, <<>>, T_or_key }, k2 \in { None, <<>>, T_an_key },
              k3 \in { None, <<>>, T_oa_key } }
    \cup { [DefaultEnv EXCEPT !.CLICKHOUSE_USER = u, !.CLICKHOUSE_PASSWORD = p,
                              !.CLICKHOUSE_DATABASE = d] :
              u \in { None, T_test_user }, p \in { None, T_test_pass },
              d \in { None, T_testdb } }

\* Lines the AI feature's stdout is made of
AiLines ==
    { <<>>, <<" ">>, L_select_1, L_select_a, L_glass, T_separator, L_select_get_schema,
      L_foo, L_from, L_inserted, T_list_tables }

\* A run of dashes one longer than the separator
L_dashes51 == T_separator \o <<"U+2500">>

\* Texts without a SQL start line in which the dashes are more than a separator
LongDashOutputs ==
    { join(<<L_from, L_dashes51, L_foo>>, T_newline),
      join(<<L_foo, L_dashes51, L_from>>, T_newline),
      join(<<L_from, T_separator, L_foo, L_dashes51>>, T_newline),
      L_from \o T_separator \o T_separator \o L_foo }

\* The stdout texts given to a direct call of the extractor
ExtractorInputs ==
    { T_example_output } \cup LongDashOutputs
        \cup { join(ls, T_newline) : ls \in SeqsUpTo(AiLines, MaxLines) }

\* The stdout texts of the AI subprocess in a turn of the interactive loop
TurnOutputs ==
    { T_example_output } \cup { join(ls, T_newline) : ls \in SeqsUpTo(AiLines, MaxTurnLines) }

FewOutputs == { <<>>, L_select_1, L_foo, T_example_output }

\* The AI subprocess: return code and stdout (a timeout or an exception counts
\* as a failed run)
AiAnswers(outputs) ==
    { [rc |-> 1, stdout |-> <<>>] } \cup { [rc |-> 0, stdout |-> t] : t \in outputs }

\* Rows of a query result
ResultRows == { <<>>, R_a, R_a_bb, R_ccc_d, R_sp }

Payloads == { join(rs, T_newline) : rs \in SeqsUpTo(ResultRows, MaxRows) }

FewPayloads == { <<>>, R_a_bb, join(<<R_a_bb, R_ccc_d>>, T_newline), <<"\n">> }

\* The server's answer to a statement: success and the body / stdout
DbAnswers(payloads) ==
    { [ok |-> FALSE, out |-> <<>>] } \cup { [ok |-> TRUE, out |-> p] : p \in payloads }

SqlInputs ==
    { S_select, S_select_limit, L_select_a, S_with, S_unlimited, S_show, <<>>, L_inserted,
      join(<<S_select, <<"l", "i", "m", "i", "t", " ", "2">> >>, T_newline) }

\* def execute_query(self, sql_query, limit=10)
DefaultLimit == 10

---------------------------------------------------------------------------
(* State *)

VARIABLES
    entry,            \* "main": the script runs main(); "api": the class is used directly
    pc,               \* where main() (or the direct user of the class) stands
    env,              \* the environment variables, None when unset
    ch_host, ch_port, ch_user, ch_password, ch_database,
    ai_provider, ai_api_key,
    config_file,      \* self.config_file: the temporary file's name, or None
    file_exists,      \* whether the temporary file is on disk
    use_http, connection_ok,
    execute_queries,  \* main's local
    cmd,              \* the last argument list _build_clickhouse_command returned
    url,              \* the last value _build_http_url returned
    ssl_context,      \* of the last _execute_http_query: "none" or "default"
    ai_stdout,        \* stdout of the AI subprocess / the extractor's input
    sql_query,        \* what generate_sql / the extractor returned
    again,            \* the extractor's result on its own previous result
    limit,            \* execute_query's limit argument (0: not called)
    sent,             \* the statement execute_query handed to the transport
    payload,          \* the output given to format_results
    shown,            \* what format_results returned
    schema,           \* what get_table_schema returned
    issued,           \* the outbound calls of the last operation, in order
    fetched,          \* the column list of the instance's first successful schema fetch
    last              \* the operation that acted last

generator == <<ch_host, ch_port, ch_user, ch_password, ch_database, ai_provider,
               ai_api_key, config_file, file_exists, use_http>>

observed ==
    <<cmd, url, ssl_context, ai_stdout, sql_query, again, limit, sent, payload, shown, schema,
      issued>>

vars == <<entry, pc, env, generator, connection_ok, execute_queries, observed, fetched, last>>

\* get_table_schema's None (a schema is a list of <<name, type>>)
SchemaNone == << <<None, None>> >>

NothingObserved ==
    /\ cmd' = <<>>
    /\ url' = None
    /\ ssl_context' = "unset"
    /\ ai_stdout' = None
    /\ sql_query' = None
    /\ again' = None
    /\ limit' = 0
    /\ sent' = None
    /\ payload' = None
    /\ shown' = None
    /\ schema' = SchemaNone
    /\ issued' = <<>>

Init ==
    /\ entry \in { "main", "api" }
    /\ pc = "start"
    /\ env \in Envs
    /\ ch_host = <<>> /\ ch_port = 0
    /\ ch_user = None /\ ch_password = None /\ ch_database = None
    /\ ai_provider = "none" /\ ai_api_key = None
    /\ config_file = None /\ file_exists = FALSE
    /\ use_http = FALSE /\ connection_ok = FALSE
    /\ execute_queries = FALSE
    /\ cmd = <<>> /\ url = None /\ ssl_context = "unset"
    /\ ai_stdout = None /\ sql_query = None /\ again = None
    /\ limit = 0 /\ sent = None /\ payload = None /\ shown = None
    /\ schema = SchemaNone
    /\ issued = <<>> /\ fetched = SchemaNone
    /\ last = "none"

---------------------------------------------------------------------------
(* ClickHouseSQLGenerator.__init__ *)

\* os.getenv('CLICKHOUSE_HOST', '').replace('https://', '').replace('http://', '')
normalize_host(value) == remove_all(remove_all(value, T_https_prefix), T_http_prefix)

\* Faulty variant of is_http_port: port 8123 forgotten
is_http_port_without_8123(port) == port \in { 8443, 443 }

\* self.use_http = self.ch_port in (8443, 443, 8123)
is_http_port(port) == port \in { 8443, 443, 8123 }

\* Faulty variant of select_provider: the OpenAI key tested before the Anthropic key
select_provider_openai_first(openrouter_key, anthropic_key, openai_key) ==
    IF Truthy(openrouter_key) THEN "openrouter"
    ELSE IF Truthy(openai_key) THEN "openai"
    ELSE IF Truthy(anthropic_key) THEN "anthropic"
    ELSE "none"

\* The if/elif chain over the three keys; "none" stands for the ValueError
select_provider(openrouter_key, anthropic_key, openai_key) ==
    IF Truthy(openrouter_key) THEN "openrouter"
    ELSE IF Truthy(anthropic_key) THEN "anthropic"
    ELSE IF Truthy(openai_key) THEN "openai"
    ELSE "none"

select_api_key(openrouter_key, anthropic_key, openai_key) ==
    IF Truthy(openrouter_key) THEN openrouter_key
    ELSE IF Truthy(anthropic_key) THEN anthropic_key
    ELSE IF Truthy(openai_key) THEN openai_key
    ELSE None

\* int(os.getenv('CLICKHOUSE_PORT', '8443')) or the missing key raises ValueError
\* before create_clickhouse_config is reached
ConstructionRaises ==
    \/ ~IsDecimal(getenv(env.CLICKHOUSE_PORT, T_default_port))
    \/ select_provider(env.OPENROUTER_API_KEY, env.ANTHROPIC_API_KEY,
                       env.OPENAI_API_KEY) = "none"

\* ClickHouseSQLGenerator(): in main() inside try/except ValueError -> sys.exit(1)
Construct ==
    /\ pc = "start"
    /\ IF ConstructionRaises
       THEN /\ pc' = IF entry = "main" THEN "exit1" ELSE "raised"
            /\ UNCHANGED <<generator, connection_ok>>
       ELSE /\ ch_host' = normalize_host(getenv(env.CLICKHOUSE_HOST, <<>>))
            /\ ch_port' = int(getenv(env.CLICKHOUSE_PORT, T_default_port))
            /\ ch_user' = env.CLICKHOUSE_USER
            /\ ch_password' = env.CLICKHOUSE_PASSWORD
            /\ ch_database' = env.CLICKHOUSE_DATABASE
            /\ ai_provider' = select_provider(env.OPENROUTER_API_KEY,
                                              env.ANTHROPIC_API_KEY, env.OPENAI_API_KEY)
            /\ ai_api_key' = select_api_key(env.OPENROUTER_API_KEY,
                                            env.ANTHROPIC_API_KEY, env.OPENAI_API_KEY)
            /\ config_file' = T_tmp_yaml
            /\ file_exists' = TRUE
            /\ use_http' = is_http_port(ch_port')
            /\ connection_ok' = FALSE
            /\ pc' = IF entry = "main" THEN "probe" ELSE "ready"
    /\ last' = "construct"
    /\ UNCHANGED <<fetched, entry, env, execute_queries, observed>>

---------------------------------------------------------------------------
(* The generator's methods.  A method that talks to a collaborator takes   *)
(* the collaborator's answer as a parameter and yields a record: its return *)
(* value and what it leaves in connection_ok, cmd, url and ssl_context.     *)

\* Faulty variant of build_http_url: the scheme is always https
build_http_url_always_https ==
    T_https \o T_colon_slashes \o ch_host \o T_colon \o str(ch_port) \o T_slash

\* _build_http_url
build_http_url ==
    (IF ch_port = 8123 THEN T_http ELSE T_https)
        \o T_colon_slashes \o ch_host \o T_colon \o str(ch_port) \o T_slash

\* _execute_http_query: ssl_context stays None exactly for port 8123
http_ssl_context == IF ch_port # 8123 THEN "default" ELSE "none"

\* Faulty variant of command_port: the configured port also in HTTP mode
command_port_configured == IF ch_port # 0 THEN <<T_opt_port, str(ch_port)>> ELSE <<>>

\* The value after --port: CLICKHOUSE_NATIVE_PORT (read when the command is
\* built) in HTTP mode, else the configured port
command_port ==
    IF use_http THEN <<T_opt_port, str(int(getenv(env.CLICKHOUSE_NATIVE_PORT,
                                                  T_default_native_port)))>>
    ELSE IF ch_port # 0 THEN <<T_opt_port, str(ch_port)>>
    ELSE <<>>

\* _build_clickhouse_command(query, extra_args); extra_args None is <<>>
build_clickhouse_command(query, extra_args) ==
    <<T_clickhouse_client>>
        \o (IF Truthy(ch_host) THEN <<T_opt_host, ch_host>> ELSE <<>>)
        \o command_port
        \o (IF Truthy(ch_user) THEN <<T_opt_user, ch_user>> ELSE <<>>)
        \o (IF Truthy(ch_password) THEN <<T_opt_password, ch_password>> ELSE <<>>)
        \o (IF Truthy(ch_database) THEN <<T_opt_database, ch_database>> ELSE <<>>)
        \o <<T_opt_secure>>
        \o (IF Truthy(config_file) THEN <<T_opt_config_file, config_file>> ELSE <<>>)
        \o extra_args
        \o <<T_opt_query, query>>
        \o (IF extra_args = <<>> \/ T_opt_format \notin Range(extra_args)
            THEN <<T_opt_format, T_TabSeparated>> ELSE <<>>)

\* One statement over the transport chosen at construction: _execute_http_query
\* when use_http, else subprocess.run of the built command
transport(query) ==
    IF use_http
    THEN [cmd |-> cmd, url |-> build_http_url, ssl_context |-> http_ssl_context]
    ELSE [cmd |-> build_clickhouse_command(query, <<>>), url |-> url,
          ssl_context |-> ssl_context]

\* One outbound call: the probe, the DESCRIBE query, the AI subprocess or the
\* statement of execute_query
Call(kind, query) == [kind |-> kind, query |-> query]

\* if not self.connection_ok: if not self.connect_to_clickhouse(): return ...
\* The probe goes out only while connection_ok is false
ProbeCalls == IF connection_ok THEN <<>> ELSE <<Call("probe", T_select_1)>>

\* Faulty variant of connect_to_clickhouse: a failed probe clears the flag
connect_to_clickhouse_resets(ok) ==
    [ret |-> ok, connection_ok |-> ok, via |-> transport(T_select_1),
     issued |-> <<Call("probe", T_select_1)>>]

\* connect_to_clickhouse: 'SELECT 1'; ok is the server's answer (a timeout or
\* an exception is a failure)
connect_to_clickhouse(ok) ==
    [ret |-> ok, connection_ok |-> connection_ok \/ ok, via |-> transport(T_select_1),
     issued |-> <<Call("probe", T_select_1)>>]

\* f"DESCRIBE TABLE {self.ch_database}.{self.ch_table}"
describe_query ==
    T_describe_table \o (IF ch_database = None THEN T_None_text ELSE ch_database)
        \o T_dot \o T_default_table

\* The loop over the DESCRIBE output's lines
parse_schema(output) ==
    LET lines == SelectSeq(split(strip(output), T_newline),
                           LAMBDA line : line # <<>> /\ Len(split(line, T_tab)) >= 2)
    IN  [i \in 1..Len(lines) |-> <<split(lines[i], T_tab)[1], split(lines[i], T_tab)[2]>>]

get_table_schema(probe_ok, answer) ==
    IF ~connection_ok /\ ~probe_ok
    THEN [ret |-> SchemaNone, connection_ok |-> FALSE, via |-> transport(T_select_1),
          issued |-> ProbeCalls]
    ELSE [ret |-> IF answer.ok /\ answer.out # <<>> THEN parse_schema(answer.out)
                  ELSE SchemaNone,
          connection_ok |-> TRUE, via |-> transport(describe_query),
          issued |-> ProbeCalls \o <<Call("describe", describe_query)>>]

\* Faulty variant of sql_from_ai_result: the raw output when nothing was extracted
sql_from_ai_result_raw(answer) ==
    LET output == strip(answer.stdout)
    IN  IF answer.rc = 0
        THEN IF output = <<>> THEN None
             ELSE IF Truthy(extract_sql_from_output(output))
                  THEN extract_sql_from_output(output)
                  ELSE output
        ELSE None

\* generate_sql, from the subprocess's result on: the stripped stdout, the
\* extractor, and None when nothing was extracted
sql_from_ai_result(answer) ==
    LET output == strip(answer.stdout)
    IN  IF answer.rc = 0
        THEN IF output = <<>> THEN None
             ELSE IF Truthy(extract_sql_from_output(output))
                  THEN extract_sql_from_output(output)
                  ELSE None
        ELSE None

\* generate_sql always runs clickhouse-client, also in HTTP mode
generate_sql(natural_query, probe_ok, answer) ==
    IF ~connection_ok /\ ~probe_ok
    THEN [ret |-> None, connection_ok |-> FALSE, via |-> transport(T_select_1),
          stdout |-> None, issued |-> ProbeCalls]
    ELSE [ret |-> sql_from_ai_result(answer), connection_ok |-> TRUE,
          via |-> [cmd |-> build_clickhouse_command(T_ai_prefix \o natural_query,
                                                    <<T_opt_multiline>>),
                   url |-> IF ~connection_ok THEN transport(T_select_1).url ELSE url,
                   ssl_context |-> IF ~connection_ok THEN transport(T_select_1).ssl_context
                                   ELSE ssl_context],
          stdout |-> IF answer.rc = 0 THEN answer.stdout ELSE None,
          issued |-> ProbeCalls \o <<Call("ai", T_ai_prefix \o natural_query)>>]

\* execute_query: (success, output) and the statement handed to the transport
execute_query(query, row_limit, probe_ok, answer) ==
    IF ~connection_ok /\ ~probe_ok
    THEN [success |-> FALSE, output |-> None, connection_ok |-> FALSE,
          via |-> transport(T_select_1), sent |-> None, issued |-> ProbeCalls]
    ELSE [success |-> answer.ok,
          output |-> IF ~answer.ok THEN None
                     ELSE IF use_http /\ answer.out = <<>> THEN None
                     ELSE strip(answer.out),
          connection_ok |-> TRUE,
          via |-> transport(add_limit(query, row_limit)),
          sent |-> add_limit(query, row_limit),
          issued |-> ProbeCalls \o <<Call("sql", add_limit(query, row_limit))>>]

\* A column list that get_table_schema returned with columns in it
IsColumnList(ret) == ret # SchemaNone /\ ret # <<>>

\* The record of the instance's first successful fetch: get_table_schema itself
\* keeps nothing of what it returns
first_fetch(ret) == IF fetched = SchemaNone /\ IsColumnList(ret) THEN ret ELSE fetched

\* A method's record r left in the state
Leaves(r) ==
    /\ connection_ok' = r.connection_ok
    /\ cmd' = r.via.cmd
    /\ url' = r.via.url
    /\ ssl_context' = r.via.ssl_context
    /\ issued' = r.issued

---------------------------------------------------------------------------
(* main() *)

TurnAnswers == AiAnswers(TurnOutputs)

FewAnswers == AiAnswers(FewOutputs)

FewDbAnswers == DbAnswers(FewPayloads)

\* The probe a method runs itself only while connection_ok is false
ProbeAnswers == IF connection_ok THEN { TRUE } ELSE BOOLEAN

\* if not generator.connect_to_clickhouse(): execute_queries = False
StartupProbe ==
    /\ entry = "main" /\ pc = "probe"
    /\ \E ok \in BOOLEAN :
          /\ Leaves(connect_to_clickhouse(ok))
          /\ execute_queries' = ok
    /\ pc' = "prompt"
    /\ last' = "probe"
    /\ UNCHANGED <<fetched, entry, env, generator, ai_stdout, sql_query, again, limit,
                   sent, payload, shown, schema>>

\* KeyboardInterrupt while connect_to_clickhouse waits for the server: its
\* except clauses catch Exception only and main() calls it outside any try, so
\* the interpreter prints the traceback and exits (status 130)
StartupInterrupt ==
    /\ entry = "main" /\ pc = "probe"
    /\ pc' = "exit130"
    /\ last' = "startup_interrupt"
    /\ UNCHANGED <<fetched, entry, env, generator, connection_ok, execute_queries, observed>>

\* if not user_input: continue
TurnEmpty ==
    /\ entry = "main" /\ pc = "prompt"
    /\ pc' = "turn_end"
    /\ last' = "empty"
    /\ UNCHANGED <<fetched, entry, env, generator, connection_ok, execute_queries,
                   observed>>

\* exit / выход / quit / q: break
TurnExit ==
    /\ entry = "main" /\ pc = "prompt"
    /\ pc' = "exit0"
    /\ last' = "exit"
    /\ UNCHANGED <<fetched, entry, env, generator, connection_ok, execute_queries,
                   observed>>

\* help / помощь / h / ?
TurnHelp ==
    /\ entry = "main" /\ pc = "prompt"
    /\ pc' = "turn_end"
    /\ last' = "help"
    /\ UNCHANGED <<fetched, entry, env, generator, connection_ok, execute_queries,
                   observed>>

\* schema / схема
TurnSchema ==
    /\ entry = "main" /\ pc = "prompt"
    /\ \E probe_ok \in ProbeAnswers, answer \in FewDbAnswers :
          LET r == get_table_schema(probe_ok, answer)
          IN  Leaves(r) /\ schema' = r.ret /\ fetched' = first_fetch(r.ret)
    /\ pc' = "turn_end"
    /\ last' = "schema"
    /\ UNCHANGED <<entry, env, generator, execute_queries, ai_stdout, sql_query, again,
                   limit, sent, payload, shown>>

\* Faulty variant of TurnQuestion: the y/n prompt follows the connection flag
TurnQuestion_by_connection ==
    /\ entry = "main" /\ pc = "prompt"
    /\ \E probe_ok \in ProbeAnswers,
          answer \in (IF env = DefaultEnv THEN TurnAnswers ELSE FewAnswers) :
          LET r == generate_sql(T_question, probe_ok, answer)
          IN  /\ Leaves(r)
              /\ ai_stdout' = r.stdout
              /\ sql_query' = r.ret
              /\ pc' = IF Truthy(r.ret) /\ r.connection_ok THEN "confirm" ELSE "turn_end"
    /\ last' = "question"
    /\ UNCHANGED <<fetched, entry, env, generator, execute_queries, again, limit, sent,
                   payload, shown, schema>>

\* Any other input: generate_sql, then the y/n prompt when execute_queries
TurnQuestion ==
    /\ entry = "main" /\ pc = "prompt"
    /\ \E probe_ok \in ProbeAnswers,
          answer \in (IF env = DefaultEnv THEN TurnAnswers ELSE FewAnswers) :
          LET r == generate_sql(T_question, probe_ok, answer)
          IN  /\ Leaves(r)
              /\ ai_stdout' = r.stdout
              /\ sql_query' = r.ret
              /\ pc' = IF Truthy(r.ret) /\ execute_queries THEN "confirm" ELSE "turn_end"
    /\ last' = "question"
    /\ UNCHANGED <<fetched, entry, env, generator, execute_queries, again, limit, sent,
                   payload, shown, schema>>

\* y / yes / д / да: execute_query, then format_results when there is output
ConfirmYes ==
    /\ entry = "main" /\ pc = "confirm"
    /\ \E probe_ok \in ProbeAnswers, answer \in FewDbAnswers :
          LET r == execute_query(sql_query, DefaultLimit, probe_ok, answer)
          IN  /\ Leaves(r)
              /\ limit' = DefaultLimit
              /\ sent' = r.sent
              /\ payload' = IF r.success /\ Truthy(r.output) THEN r.output ELSE None
              /\ shown' = IF r.success /\ Truthy(r.output) THEN format_results(r.output)
                          ELSE None
    /\ pc' = "turn_end"
    /\ last' = "confirm_yes"
    /\ UNCHANGED <<fetched, entry, env, generator, execute_queries, ai_stdout, sql_query,
                   again, schema>>

\* Any other answer to the y/n prompt
ConfirmNo ==
    /\ entry = "main" /\ pc = "confirm"
    /\ pc' = "turn_end"
    /\ last' = "confirm_no"
    /\ UNCHANGED <<fetched, entry, env, generator, connection_ok, execute_queries,
                   observed>>

\* except KeyboardInterrupt: break (raised by either input())
Interrupt ==
    /\ entry = "main" /\ pc \in { "prompt", "confirm" }
    /\ pc' = "exit0"
    /\ last' = "interrupt"
    /\ UNCHANGED <<fetched, entry, env, generator, connection_ok, execute_queries,
                   observed>>

\* Faulty variant of InputError: the handler leaves the loop
InputError_ends_loop ==
    /\ entry = "main" /\ pc \in { "prompt", "confirm" }
    /\ pc' = "exit0"
    /\ last' = "error"
    /\ UNCHANGED <<fetched, entry, env, generator, connection_ok, execute_queries, observed>>

\* except Exception: the message, and the loop goes on (input() raising EOFError)
InputError ==
    /\ entry = "main" /\ pc \in { "prompt", "confirm" }
    /\ pc' = "turn_end"
    /\ last' = "error"
    /\ UNCHANGED <<fetched, entry, env, generator, connection_ok, execute_queries,
                   observed>>

\* The next iteration of while True; the turn's observations are dropped
LoopBack ==
    /\ entry = "main" /\ pc = "turn_end"
    /\ pc' = "prompt"
    /\ last' = "loop"
    /\ NothingObserved
    /\ UNCHANGED <<fetched, entry, env, generator, connection_ok, execute_queries>>

\* Faulty variant of del_file_exists: the file is never unlinked
del_keeps_file == file_exists

\* __del__: os.unlink(self.config_file) when the name is set and the file exists
del_file_exists == IF Truthy(config_file) /\ file_exists THEN FALSE ELSE file_exists

\* The process ends: main() has returned after break, sys.exit(1) was called, or
\* the interrupt was not caught.  The generator, a local of main(), is released
\* and CPython runs its __del__ (when main() returns; with the traceback that
\* holds the frame when the interpreter finalizes).  After sys.exit(1) there is
\* no instance and no file.
Teardown ==
    /\ entry = "main" /\ pc \in { "exit0", "exit1", "exit130" }
    /\ pc' = (CASE pc = "exit0" -> "ended0" [] pc = "exit1" -> "ended1"
                 [] OTHER -> "ended130")
    /\ file_exists' = (IF pc = "exit1" THEN file_exists ELSE del_file_exists)
    /\ last' = "teardown"
    /\ UNCHANGED <<fetched, entry, env, ch_host, ch_port, ch_user, ch_password, ch_database,
                   ai_provider, ai_api_key, config_file, use_http, connection_ok,
                   execute_queries, observed>>

---------------------------------------------------------------------------
(* The class used directly, as test_text_to_sql.py does: construct, then    *)
(* call methods one after the other.                                        *)

ApiConnect ==
    /\ entry = "api" /\ pc = "ready"
    /\ \E ok \in BOOLEAN : Leaves(connect_to_clickhouse(ok))
    /\ pc' = "returned"
    /\ last' = "connect"
    /\ UNCHANGED <<fetched, entry, env, generator, execute_queries, ai_stdout, sql_query,
                   again, limit, sent, payload, shown, schema>>

ApiBuildHttpUrl ==
    /\ entry = "api" /\ pc = "ready"
    /\ url' = build_http_url
    /\ pc' = "returned"
    /\ last' = "build_http_url"
    /\ UNCHANGED <<fetched, entry, env, generator, connection_ok, execute_queries, cmd,
                   ssl_context, issued, ai_stdout, sql_query, again, limit, sent, payload,
                   shown, schema>>

ApiBuildCommand ==
    /\ entry = "api" /\ pc = "ready"
    /\ \E query \in { T_select_1, <<>> },
          extra_args \in { <<>>, <<T_opt_multiline>>, <<T_opt_format, T_json>> } :
          cmd' = build_clickhouse_command(query, extra_args)
    /\ pc' = "returned"
    /\ last' = "build_command"
    /\ UNCHANGED <<fetched, entry, env, generator, connection_ok, execute_queries, url,
                   ssl_context, issued, ai_stdout, sql_query, again, limit, sent, payload,
                   shown, schema>>

ApiGetTableSchema ==
    /\ entry = "api" /\ pc = "ready"
    /\ \E probe_ok \in ProbeAnswers, answer \in FewDbAnswers :
          LET r == get_table_schema(probe_ok, answer)
          IN  Leaves(r) /\ schema' = r.ret /\ fetched' = first_fetch(r.ret)
    /\ pc' = "returned"
    /\ last' = "get_table_schema"
    /\ UNCHANGED <<entry, env, generator, execute_queries, ai_stdout, sql_query, again,
                   limit, sent, payload, shown>>

ApiGenerateSql ==
    /\ entry = "api" /\ pc = "ready"
    /\ \E probe_ok \in ProbeAnswers, answer \in FewAnswers :
          LET r == generate_sql(T_question, probe_ok, answer)
          IN  /\ Leaves(r)
              /\ ai_stdout' = r.stdout
              /\ sql_query' = r.ret
    /\ pc' = "returned"
    /\ last' = "generate_sql"
    /\ UNCHANGED <<fetched, entry, env, generator, execute_queries, again, limit, sent,
                   payload, shown, schema>>

ApiExtract ==
    /\ entry = "api" /\ pc = "ready"
    /\ \E output \in (IF env = DefaultEnv THEN ExtractorInputs \cup { None }
                      ELSE FewOutputs) :
          /\ ai_stdout' = output
          /\ sql_query' = extract_sql_from_output(output)
    /\ pc' = "returned"
    /\ last' = "extract"
    /\ UNCHANGED <<fetched, entry, env, generator, connection_ok, execute_queries, cmd,
                   url, ssl_context, issued, again, limit, sent, payload, shown, schema>>

\* The extractor called on the text it has just returned
ApiExtractAgain ==
    /\ entry = "api" /\ pc = "returned" /\ last = "extract"
    /\ sql_query # None
    /\ again' = extract_sql_from_output(sql_query)
    /\ last' = "extract_again"
    /\ UNCHANGED <<fetched, entry, pc, env, generator, connection_ok, execute_queries, cmd,
                   url, ssl_context, issued, ai_stdout, sql_query, limit, sent, payload,
                   shown, schema>>

ApiExecuteQuery ==
    /\ entry = "api" /\ pc = "ready"
    /\ \E query \in SqlInputs, row_limit \in { DefaultLimit, 3 },
          probe_ok \in ProbeAnswers, answer \in FewDbAnswers :
          LET r == execute_query(query, row_limit, probe_ok, answer)
          IN  /\ Leaves(r)
              /\ sql_query' = query
              /\ limit' = row_limit
              /\ sent' = r.sent
    /\ pc' = "returned"
    /\ last' = "execute_query"
    /\ UNCHANGED <<fetched, entry, env, generator, execute_queries, ai_stdout, again,
                   payload, shown, schema>>

ApiFormatResults ==
    /\ entry = "api" /\ pc = "ready"
    /\ \E output \in (IF env = DefaultEnv THEN Payloads \cup { None } ELSE FewPayloads) :
          /\ payload' = output
          /\ shown' = format_results(output)
    /\ pc' = "returned"
    /\ last' = "format_results"
    /\ UNCHANGED <<fetched, entry, env, generator, connection_ok, execute_queries, cmd,
                   url, ssl_context, issued, ai_stdout, sql_query, again, limit, sent,
                   schema>>

\* The call has returned; the caller goes on to its next call
ApiNext ==
    /\ entry = "api" /\ pc = "returned"
    /\ pc' = "ready"
    /\ last' = "next"
    /\ NothingObserved
    /\ UNCHANGED <<fetched, entry, env, generator, connection_ok, execute_queries>>

---------------------------------------------------------------------------

Next ==
    \/ Construct
    \/ StartupProbe
    \/ StartupInterrupt
    \/ TurnEmpty
    \/ TurnExit
    \/ TurnHelp
    \/ TurnSchema
    \/ TurnQuestion
    \/ ConfirmYes
    \/ ConfirmNo
    \/ Interrupt
    \/ InputError
    \/ LoopBack
    \/ Teardown
    \/ ApiConnect
    \/ ApiBuildHttpUrl
    \/ ApiBuildCommand
    \/ ApiGetTableSchema
    \/ ApiGenerateSql
    \/ ApiExtract
    \/ ApiExtractAgain
    \/ ApiExecuteQuery
    \/ ApiFormatResults
    \/ ApiNext

Spec == Init /\ [][Next]_vars

\* The loop body runs on: after continue, or at the end of the body, the next
\* iteration of while True starts
LiveSpec == Spec /\ WF_vars(LoopBack)

---------------------------------------------------------------------------
(* Properties *)

\* The generator has been constructed
Constructed == pc \notin { "start", "exit1", "ended1", "raised" }

\* The text of CLICKHOUSE_PORT the process was started with
ConfiguredPortText == getenv(env.CLICKHOUSE_PORT, T_default_port)

\* The text of CLICKHOUSE_NATIVE_PORT
NativePortText == getenv(env.CLICKHOUSE_NATIVE_PORT, T_default_native_port)

HttpPortTexts == { P_443, P_8123, P_8443 }

\* The values that follow a --port in the command
PortArguments == { cmd[i + 1] : i \in { j \in 1..(Len(cmd) - 1) : cmd[j] = T_opt_port } }

\* C1: once the generator is constructed, use_http is true exactly when the
\* configured port is 443, 8123 or 8443, whatever operations have run since
\* (the startup probe, schema requests, SQL generation, query execution).
C1_UseHttpFollowsPort ==
    Constructed =>
        /\ use_http <=> ConfiguredPortText \in HttpPortTexts
        /\ use_http <=> ch_port \in { 443, 8123, 8443 }

\* C1 witness: HTTP mode still set for port 8123 after a query was executed
C1_Witness ==
    /\ last = "confirm_yes" /\ sent # None
    /\ ConfiguredPortText = P_8123 /\ use_http

\* C2 as amended: in every command built, each --port is followed by the value
\* of CLICKHOUSE_NATIVE_PORT (default 9440) when the configured port selects
\* HTTP mode and by the configured port itself when it selects native mode
\* (a configured port 0 emits no --port); the configured HTTP port is emitted
\* only when CLICKHOUSE_NATIVE_PORT is set to that same value.
C2_PortArgument ==
    cmd # <<>> =>
        /\ ConfiguredPortText \in HttpPortTexts => PortArguments = { NativePortText }
        /\ ConfiguredPortText \notin HttpPortTexts =>
              PortArguments = IF ConfiguredPortText = P_0 THEN {} ELSE { ConfiguredPortText }
        /\ (ConfiguredPortText \in HttpPortTexts /\ NativePortText # ConfiguredPortText)
              => ConfiguredPortText \notin PortArguments

\* C2 witness: HTTP port 8443 configured, the AI command built with --port 9440
C2_Witness ==
    /\ last = "question" /\ cmd # <<>>
    /\ ConfiguredPortText = P_8443 /\ env.CLICKHOUSE_NATIVE_PORT = None
    /\ PortArguments = { T_default_native_port }

\* C2 as stated: as above, and the configured HTTP port is never the --port value
C2_Original ==
    cmd # <<>> =>
        /\ ConfiguredPortText \in HttpPortTexts =>
              PortArguments = { NativePortText } /\ ConfiguredPortText \notin PortArguments
        /\ ConfiguredPortText \notin HttpPortTexts =>
              PortArguments = IF ConfiguredPortText = P_0 THEN {} ELSE { ConfiguredPortText }

\* C3: the URL _build_http_url returns is <scheme>://<host>:<port>/ with scheme
\* http exactly for port 8123 and https for every other port, and
\* _execute_http_query creates a TLS context exactly when the port is not 8123.
C3_UrlSchemeAndTls ==
    /\ url # None =>
          url = (IF ConfiguredPortText = P_8123 THEN T_http_prefix ELSE T_https_prefix)
                    \o ch_host \o T_colon \o ConfiguredPortText \o T_slash
    /\ ssl_context # "unset" => (ssl_context = "none" <=> ConfiguredPortText = P_8123)

\* C3 witness: a request over plain http on port 8123, without a TLS context
C3_Witness ==
    /\ last = "probe" /\ ConfiguredPortText = P_8123
    /\ startswith(url, T_http_prefix) /\ ssl_context = "none"

\* The text of CLICKHOUSE_HOST
ConfiguredHostText == getenv(env.CLICKHOUSE_HOST, <<>>)

\* The length of a leading http:// or https:// in any letter case (0: none)
SchemePrefixLen(host) ==
    IF startswith(lower(host), T_https_prefix) THEN Len(T_https_prefix)
    ELSE IF startswith(lower(host), T_http_prefix) THEN Len(T_http_prefix)
    ELSE 0

\* C4: for a CLICKHOUSE_HOST of the form <prefix><name>, the prefix http:// or
\* https:// in any letter case, ch_host is <name>; a value without such a
\* prefix is stored unchanged.
C4_SchemePrefixStripped ==
    Constructed =>
        ch_host = SubSeq(ConfiguredHostText, SchemePrefixLen(ConfiguredHostText) + 1,
                         Len(ConfiguredHostText))

SetMin(S) == CHOOSE m \in S : \A n \in S : m <= n

\* The text the extractor was last given: the argument of a direct call, the
\* stripped stdout in generate_sql
ExtractorInput == IF last = "extract" THEN ai_stdout ELSE strip(ai_stdout)

ExtractorRan == last \in { "extract", "question", "generate_sql" } /\ ai_stdout # None

LinesOf(text) == split(text, T_newline)

\* A line the loop takes as the SQL start: it begins, after whitespace, with a
\* start keyword and is not skipped as commentary
IsSqlStart(line) == MatchesSqlStart(line) /\ ~IsCommentary(line)

SqlStartLines(text) == { i \in 1..Len(LinesOf(text)) : IsSqlStart(LinesOf(text)[i]) }

NonBlankLines(text) == { i \in 1..Len(LinesOf(text)) : strip(LinesOf(text)[i]) # <<>> }

\* C5: when the input has a line recognized as the SQL start, the result is the
\* lines from the first such line through the last non-blank line, joined by
\* newlines and trimmed: what precedes the start is dropped, and every later
\* line, blank or commentary, is kept.
C5_FromStartToLastNonBlank ==
    (ExtractorRan /\ SqlStartLines(ExtractorInput) # {}) =>
        sql_query = strip(join(SubSeq(LinesOf(ExtractorInput),
                                      SetMin(SqlStartLines(ExtractorInput)),
                                      SetMax(NonBlankLines(ExtractorInput))),
                               T_newline))

\* C5 witness: a progress line dropped before the start, a commentary line
\* kept after it
C5_Witness ==
    /\ last = "extract"
    /\ ai_stdout = join(<<L_glass, L_select_1, T_list_tables>>, T_newline)
    /\ sql_query = join(<<L_select_1, T_list_tables>>, T_newline)

\* A text from which nothing is extracted: None (the AI run failed), empty or
\* whitespace only, or neither a SQL start line nor a fallback keyword in it
NoSqlIn(text) ==
    \/ text = None
    \/ strip(text) = <<>>
    \/ SqlStartLines(text) = {} /\ ~SearchesSqlKeyword(strip(text))

\* C6: the extractor returns None for an empty or whitespace-only input and
\* for an input with no SQL start line and no fallback keyword; generate_sql
\* then returns None, and the loop ends the turn without the y/n prompt, so
\* execute_query is called on nothing in that turn.
C6_NoSqlGivesNone ==
    /\ (last \in { "extract", "question", "generate_sql" } /\ NoSqlIn(ai_stdout))
          => sql_query = None
    /\ (last = "question" /\ NoSqlIn(ai_stdout)) => (pc = "turn_end" /\ sent = None)
    /\ last = "confirm_yes" => (~NoSqlIn(ai_stdout) /\ Truthy(sql_query))

\* C6 witness: the loop would execute queries, the AI printed only commentary,
\* and the turn ended without a statement
C6_Witness ==
    /\ entry = "main" /\ last = "question" /\ execute_queries
    /\ ai_stdout = join(<<L_glass, L_foo>>, T_newline)
    /\ sql_query = None /\ pc = "turn_end"

\* C7 as amended: for every input whose first line the extractor recognizes as
\* the SQL start (it begins with a start keyword and is not skipped as
\* commentary), the extractor returns its own result unchanged.
C7_IdempotentOnRecognizedStart ==
    (last = "extract_again" /\ IsSqlStart(LinesOf(ai_stdout)[1])) => again = sql_query

\* C7 witness: the first pass trimmed the text, the second returned it as it was
C7_Witness ==
    /\ last = "extract_again"
    /\ ai_stdout = join(<<L_select_a, <<>>, L_foo>>, T_newline)
    /\ sql_query # ai_stdout /\ again = sql_query

\* C7 as stated: for every input whose first line begins with a start keyword,
\* the extractor returns its own result unchanged.
C7_Original ==
    (last = "extract_again" /\ MatchesSqlStart(LinesOf(ai_stdout)[1])) => again = sql_query

\* The rule of the claim: the trimmed, uppercased statement starts with SELECT
\* and the uppercased statement has no LIMIT in it
WantsLimit(query) ==
    /\ startswith(upper(strip(query)), T_SELECT)
    /\ ~contains(upper(query), T_LIMIT)

\* The decimal text of the limits the callers pass
LimitText == IF limit = 10 THEN <<"1", "0">> ELSE <<DigitChars[limit + 1]>>

StatementSent == last \in { "execute_query", "confirm_yes" } /\ sent # None

\* C8: the statement sent is the input followed by " LIMIT <limit>" exactly
\* when the trimmed, uppercased input starts with SELECT and the uppercased
\* input does not contain LIMIT, and the input unchanged in every other case;
\* the rule applied to the statement sent leaves it as it is.
C8_LimitAppendedOnce ==
    StatementSent =>
        /\ sent = IF WantsLimit(sql_query)
                  THEN sql_query \o T_limit_clause \o LimitText
                  ELSE sql_query
        /\ ~WantsLimit(sent)
        /\ add_limit(sent, limit) = sent

\* C8 witness: a SELECT without LIMIT went out with the caller's limit appended
C8_Witness ==
    /\ last = "execute_query" /\ sql_query = S_select /\ limit = 3
    /\ sent = S_select_limit

FormatterRan == last = "format_results" \/ (last = "confirm_yes" /\ shown # None)

\* The rows the formatter sees in a non-empty payload
PayloadRows == Len(LinesOf(strip(payload)))

SummaryLine == LinesOf(shown)[Len(LinesOf(shown))]

\* C9 as amended: an empty payload gives the "no results" message; a payload
\* of a single row reports a total of 1; a payload of two or more rows reports
\* the number of rows excluding the first (header) row.
C9_ReportedTotal ==
    FormatterRan =>
        IF payload \in { None, <<>> } THEN shown = T_no_results
        ELSE SummaryLine = T_total_rows \o
                 <<DigitChars[(IF PayloadRows > 1 THEN PayloadRows - 1 ELSE 1) + 1]>>

\* C9 witness: a payload of one row, reported as a total of 1
C9_Witness ==
    /\ last = "format_results" /\ payload = R_a_bb
    /\ SummaryLine = T_total_rows \o <<"1">>

\* C9 as stated: an empty payload gives the "no results" message and the
\* reported total is always the number of rows excluding the first, so zero
\* for a payload of a single row.
C9_Original ==
    FormatterRan =>
        IF payload \in { None, <<>> } THEN shown = T_no_results
        ELSE SummaryLine = T_total_rows \o <<DigitChars[(PayloadRows - 1) + 1]>>

\* The first of the three keys, in the fixed order, that has a value
FirstKeyPresent ==
    IF Truthy(env.OPENROUTER_API_KEY) THEN "openrouter"
    ELSE IF Truthy(env.ANTHROPIC_API_KEY) THEN "anthropic"
    ELSE IF Truthy(env.OPENAI_API_KEY) THEN "openai"
    ELSE "none"

\* C10: in every state after construction the provider is the first present
\* key in the order OPENROUTER_API_KEY, ANTHROPIC_API_KEY, OPENAI_API_KEY; with
\* none of them present construction raises, no config file exists, and main
\* is at exit status 1 with no probe sent and no turn of the loop taken.
C10_ProviderByPriority ==
    /\ Constructed => (FirstKeyPresent # "none" /\ ai_provider = FirstKeyPresent)
    /\ (FirstKeyPresent = "none" /\ pc # "start") =>
          /\ pc \in (IF entry = "main" THEN { "exit1", "ended1" } ELSE { "raised" })
          /\ last \in { "construct", "teardown" }
          /\ ~file_exists /\ config_file = None
          /\ ~connection_ok /\ cmd = <<>> /\ url = None /\ sent = None

\* C10 witness: main started with a valid port and no key, and is at exit 1
C10_Witness ==
    /\ entry = "main" /\ pc = "exit1" /\ FirstKeyPresent = "none"
    /\ IsDecimal(ConfiguredPortText)

\* C11: in every argument list _build_clickhouse_command returned, the query
\* (the value of --query) is the final argument.
C11_QueryIsFinalArgument ==
    cmd # <<>> => (cmd[Len(cmd) - 1] = T_opt_query /\ cmd[Len(cmd)] # T_TabSeparated)

\* The interactive loop of main(): the prompt, the y/n prompt, the end of a turn
InLoop == entry = "main" /\ pc \in { "prompt", "confirm", "turn_end" }

\* C12: once the loop is entered it is left only by an exit command or by
\* KeyboardInterrupt; every other turn, failed or not (probe, generation,
\* extraction, execution or schema failure, an exception while reading input),
\* ends at the end of the loop body, and from there the loop prompts again.
C12_LoopSurvivesFailures ==
    /\ [][(InLoop /\ ~InLoop') => last' \in { "exit", "interrupt" }]_vars
    /\ (entry = "main" /\ pc = "turn_end") ~> (pc = "prompt")

\* C12 witness: the probe inside generate_sql failed, nothing was generated,
\* and the loop is still running
C12_Witness ==
    /\ InLoop /\ pc = "turn_end" /\ last = "question"
    /\ ~connection_ok /\ sql_query = None
    /\ issued = <<Call("probe", T_select_1)>>

\* The process is gone
TornDown == pc \in { "ended0", "ended1", "ended130" }

HasCommentarySubstring(line) ==
    \E sub \in { T_generated_successfully, T_list_databases, T_list_tables, T_get_schema } :
        contains(lower(line), sub)

\* The lines that begin, after whitespace, with a start keyword
KeywordLines(text) == { i \in 1..Len(LinesOf(text)) : MatchesSqlStart(LinesOf(text)[i]) }

\* Those of them that hold none of the commentary substrings
PlainKeywordLines(text) ==
    { i \in KeywordLines(text) : ~HasCommentarySubstring(LinesOf(text)[i]) }

\* The result as lines, compared up to the outer trim
ResultFrom(text, first) ==
    strip(join(SubSeq(LinesOf(text), first, SetMax(NonBlankLines(text))), T_newline))

\* C14 as amended: while no SQL start has been detected, a line that begins
\* (after whitespace, in any case) with a start keyword is the SQL start, and
\* the first line of the result, unless it contains one of the commentary
\* substrings; a keyword line that contains one is skipped like any other
\* commentary, and the start is the first keyword line without them.
C14_StartIsFirstPlainKeywordLine ==
    (ExtractorRan /\ PlainKeywordLines(ExtractorInput) # {}) =>
        /\ sql_query = ResultFrom(ExtractorInput, SetMin(PlainKeywordLines(ExtractorInput)))
        /\ strip(LinesOf(sql_query)[1]) =
              strip(LinesOf(ExtractorInput)[SetMin(PlainKeywordLines(ExtractorInput))])

\* C14 witness: the first keyword line names get_schema and was skipped, the
\* second is the start
C14_Witness ==
    /\ last = "extract"
    /\ ai_stdout = join(<<L_select_get_schema, L_select_1>>, T_newline)
    /\ sql_query = L_select_1

\* C14 as stated: the first line that begins with a start keyword is the SQL
\* start and the first line of the result, also when it contains a commentary
\* substring.
C14_Original ==
    (ExtractorRan /\ KeywordLines(ExtractorInput) # {}) =>
        sql_query = ResultFrom(ExtractorInput, SetMin(KeywordLines(ExtractorInput)))

\* The fallback decides: the text is not blank, the loop found no SQL start,
\* and the trimmed text holds a fallback keyword as a whole word
FallbackApplies ==
    /\ ExtractorRan /\ strip(ExtractorInput) # <<>>
    /\ SqlStartLines(ExtractorInput) = {}
    /\ SearchesSqlKeyword(strip(ExtractorInput))

\* Where the separator stands in a text
SeparatorAt(text) ==
    { i \in 1..(Len(text) - SeparatorLen + 1) :
        SubSeq(text, i, i + SeparatorLen - 1) = T_separator }

\* The index after the last separator str.split finds: from the left, each
\* match starting where the one before it ended (1: none found)
RECURSIVE AfterLastSplit(_, _)
AfterLastSplit(text, from) ==
    LET next == { i \in SeparatorAt(text) : i >= from }
    IN  IF next = {} THEN from
        ELSE AfterLastSplit(text, SetMin(next) + SeparatorLen)

\* The index after the last place where the separator stands (1: nowhere)
AfterLastOccurrence(text) ==
    IF SeparatorAt(text) = {} THEN 1 ELSE SetMax(SeparatorAt(text)) + SeparatorLen

\* The trimmed text from an index on, or the whole text when that is empty or
\* no separator was found
SegmentOrWhole(text, from) ==
    IF from > 1 /\ strip(SubSeq(text, from, Len(text))) # <<>>
    THEN strip(SubSeq(text, from, Len(text)))
    ELSE text

\* C15 as amended: when the fallback decides, the result is the trimmed segment
\* after the last separator that a left-to-right split of the trimmed text
\* finds (matches do not overlap, so of a longer run of dashes the first 50
\* are the separator and the rest belongs to the segment) if there is a
\* separator and the segment is not empty, and the whole trimmed text
\* otherwise; it is neither None nor empty.
C15_FallbackSegment ==
    FallbackApplies =>
        /\ sql_query = SegmentOrWhole(strip(ExtractorInput),
                                      AfterLastSplit(strip(ExtractorInput), 1))
        /\ sql_query # None /\ sql_query # <<>>

\* C15 witness: commentary with a keyword in it, the separator, and a segment
C15_Witness ==
    /\ last = "extract"
    /\ ai_stdout = join(<<L_from, T_separator, L_foo>>, T_newline)
    /\ sql_query = L_foo

\* C15 as stated: the segment is what follows the last occurrence of the
\* 50-character separator in the trimmed text.
C15_Original ==
    FallbackApplies =>
        /\ sql_query = SegmentOrWhole(strip(ExtractorInput),
                                      AfterLastOccurrence(strip(ExtractorInput)))
        /\ sql_query # None /\ sql_query # <<>>

\* The kinds of the outbound calls of an operation
KindsOf(calls) == { calls[i].kind : i \in 1..Len(calls) }

\* get_table_schema has just been called (the schema command, or directly)
SchemaRequested == last \in { "schema", "get_table_schema" }

\* C16: once a schema fetch of the instance has succeeded, every later schema
\* request returns that column list and issues no DESCRIBE TABLE query.
C16_SchemaFetchedOnce ==
    [][(fetched # SchemaNone /\ SchemaRequested')
          => (schema' = fetched /\ "describe" \notin KindsOf(issued'))]_vars

\* C17: when the startup probe of main fails, execute_queries is false and stays
\* false for the rest of the process: every later question still goes to
\* generate_sql (its probe, and the AI call when the probe answers), the y/n
\* prompt is never reached and execute_query never sends a statement, also
\* after a later probe has set connection_ok
GenerationOnly == entry = "main" /\ ~execute_queries /\ (InLoop \/ pc \in { "exit0", "ended0" })

GenerationAttempted ==
    \/ "ai" \in KindsOf(issued)
    \/ issued = <<Call("probe", T_select_1)>> /\ ~connection_ok /\ sql_query = None

C17_GenerationOnlyMode ==
    /\ [](last = "probe" => (execute_queries <=> connection_ok))
    /\ [][(entry = "main" /\ pc # "probe") => execute_queries' = execute_queries]_vars
    /\ [](GenerationOnly => /\ pc # "confirm"
                            /\ last \notin { "confirm_yes", "confirm_no" }
                            /\ "sql" \notin KindsOf(issued)
                            /\ sent = None)
    /\ []((GenerationOnly /\ last = "question") => GenerationAttempted)

C17_Witness ==
    /\ GenerationOnly /\ pc = "turn_end" /\ last = "question"
    /\ connection_ok /\ Truthy(sql_query)
    /\ KindsOf(issued) = { "probe", "ai" }

\* C18: connection_ok is false after construction, becomes true only in a step
\* that issues the 'SELECT 1' probe, and is never reset; a DESCRIBE query, an AI
\* call or a statement of execute_query is issued only when connection_ok is
\* true on return; and a method whose probe fails while connection_ok is false
\* issues the probe alone and returns its failure value (None, None,
\* (False, None))
OwnCalls == { "describe", "ai", "sql" }

ProbeOnly == issued = <<Call("probe", T_select_1)>>

FailedAtGate ==
    /\ last \in { "schema", "get_table_schema" } => schema = SchemaNone
    /\ last \in { "question", "generate_sql" } => sql_query = None
    /\ last \in { "confirm_yes", "execute_query" } => sent = None /\ payload = None

GatedCall == last \in { "schema", "get_table_schema", "question", "generate_sql",
                        "confirm_yes", "execute_query" }

FailureValues ==
    \A answer \in FewDbAnswers, ai \in FewAnswers :
        /\ get_table_schema(FALSE, answer).ret = SchemaNone
        /\ get_table_schema(FALSE, answer).issued = <<Call("probe", T_select_1)>>
        /\ generate_sql(T_question, FALSE, ai).ret = None
        /\ generate_sql(T_question, FALSE, ai).issued = <<Call("probe", T_select_1)>>
        /\ execute_query(T_select_1, DefaultLimit, FALSE, answer).success = FALSE
        /\ execute_query(T_select_1, DefaultLimit, FALSE, answer).output = None
        /\ execute_query(T_select_1, DefaultLimit, FALSE, answer).issued
              = <<Call("probe", T_select_1)>>

C18_ConnectionGating ==
    /\ [](last \in { "none", "construct" } => ~connection_ok)
    /\ [][connection_ok => connection_ok']_vars
    /\ [][(~connection_ok /\ connection_ok') => Call("probe", T_select_1) \in Range(issued')]_vars
    /\ [](KindsOf(issued) \cap OwnCalls # {} => connection_ok)
    /\ []((GatedCall /\ ~connection_ok) => (ProbeOnly /\ FailedAtGate))
    /\ []((Constructed /\ ~connection_ok) => FailureValues)

C18_Witness ==
    /\ entry = "api" /\ last = "execute_query" /\ ~connection_ok
    /\ ProbeOnly /\ sent = None /\ sql_query \in SqlInputs

====
